---- MODULE Spec2Model ----
(***************************************************************************)
(* A model of simplecrawl: the synchronous client FirecrawlClient          *)
(* (sync_client.py, over requests), the asynchronous client                *)
(* AsyncFirecrawlClient (async_client.py, over httpx) and the pydantic     *)
(* response models (models.py).                                            *)
(*                                                                         *)
(* Python values are tagged records [t, v]: None is JNull, a str is        *)
(* JStr(s), an int JInt(n), a bool JBool(b), a list JList(<<..>>) and a    *)
(* dict JObj(d) with d a set of <<key, value>> pairs, one pair per key.    *)
(* json=payload serialises such a value structurally (None -> null, a key  *)
(* of a dict -> a key of the object), so the payload sent is the dict.     *)
(* URLs are sequences of tokens, so that str.rstrip and the f-string       *)
(* concatenation are computed, not assumed.                                *)
(***************************************************************************)
EXTENDS Integers, Sequences, FiniteSets, TLC

VARIABLES
    kind,        \* "sync" (FirecrawlClient) or "async" (AsyncFirecrawlClient)
    pc,          \* "new", "failed" (constructor raised), "ready", "scope", "exited"
    base_arg,    \* the base_url argument given to the constructor
    base_url,    \* self.base_url
    transport,   \* self.session / self.client: "none", "open", "closed"
    exit_exc,    \* how the async-with scope was left: "none", "normal", "error"
    last,        \* the last operation: its arguments, requests, reply, outcome
    ncalls,      \* operations called so far
    nreq,        \* transport requests issued so far
    pending      \* (SpecPayload only) the call whose payload is to be built

vars == <<kind, pc, base_arg, base_url, transport, exit_exc, last, ncalls, nreq, pending>>

-----------------------------------------------------------------------------
(* Bounds of the model *)

\* the longest base URL, in tokens
MaxBaseLen == 2
\* the number of operations called on one client
MaxCalls == 2
\* the longest list / largest dict given as an argument
MaxItems == 1

-----------------------------------------------------------------------------
(* Python values *)

JNull == [t |-> "null", v |-> "null"]
JStr(s) == [t |-> "str", v |-> s]
JInt(n) == [t |-> "int", v |-> n]
JBool(b) == [t |-> "bool", v |-> b]
JList(s) == [t |-> "list", v |-> s]
JObj(d) == [t |-> "obj", v |-> d]

\* bool(v): the truth value Python's `or` and `if` test
Truthy(x) ==
    CASE x.t = "null" -> FALSE
      [] x.t = "str" -> x.v # ""
      [] x.t = "int" -> x.v # 0
      [] x.t = "bool" -> x.v
      [] x.t = "list" -> Len(x.v) > 0
      [] x.t = "obj" -> x.v # {}

\* a or b
PyOr(a, b) == IF Truthy(a) THEN a ELSE b

\* dict operations on a set of <<key, value>> pairs
Keys(d) == {p[1] : p \in d}
GetItem(d, k) == (CHOOSE p \in d : p[1] = k)[2]
SetItem(d, k, x) == {p \in d : p[1] # k} \cup {<<k, x>>}

-----------------------------------------------------------------------------
(* Construction *)

\* (mutant) the base URL is kept as given
rstrip_nothing(s) == s

\* str.rstrip("/"): every trailing "/" is removed
RECURSIVE rstrip(_)
rstrip(s) ==
    IF s # <<>> /\ s[Len(s)] = "/" THEN rstrip(SubSeq(s, 1, Len(s) - 1)) ELSE s

\* FirecrawlClient.__init__: the state after construction, or the ValueError
sync_init(b) ==
    IF b = <<>>
    THEN [raised |-> TRUE, base_url |-> <<>>, transport |-> "none"]
    ELSE [raised |-> FALSE, base_url |-> rstrip(b), transport |-> "open"]

\* AsyncFirecrawlClient.__init__
async_init(b) ==
    IF b = <<>>
    THEN [raised |-> TRUE, base_url |-> <<>>, transport |-> "none"]
    ELSE [raised |-> FALSE, base_url |-> rstrip(b), transport |-> "open"]

-----------------------------------------------------------------------------
(* Calls: a call gives some parameters by keyword; the others take the     *)
(* defaults of the signature.                                              *)

\* the parameters of a call: the signature's defaults, overridden by the
\* arguments the caller gave
Bind(defaults, given) == {p \in defaults : p[1] \notin Keys(given)} \cup given

MarkdownOnly == JList(<<JStr("markdown")>>)

\* FirecrawlClient.scrape: the defaults of its signature
sync_scrape_defaults ==
    { <<"formats", JNull>>, <<"include_tags", JNull>>, <<"exclude_tags", JNull>>,
      <<"headers", JNull>>, <<"wait_for", JInt(0)>>, <<"timeout", JInt(30000)>>,
      <<"extract_schema", JNull>>, <<"extract_system_prompt", JNull>>,
      <<"extract_prompt", JNull>> }

\* (mutant) formats defaults only when it is None
sync_scrape_payload_is_none(a) ==
    LET p0 == { <<"url", GetItem(a, "url")>>,
                <<"formats", IF GetItem(a, "formats") # JNull THEN GetItem(a, "formats")
                             ELSE MarkdownOnly>>,
                <<"waitFor", GetItem(a, "wait_for")>>,
                <<"timeout", GetItem(a, "timeout")>> }
        p1 == IF GetItem(a, "include_tags") # JNull
              THEN SetItem(p0, "includeTags", GetItem(a, "include_tags")) ELSE p0
        p2 == IF GetItem(a, "exclude_tags") # JNull
              THEN SetItem(p1, "excludeTags", GetItem(a, "exclude_tags")) ELSE p1
        p3 == IF GetItem(a, "headers") # JNull
              THEN SetItem(p2, "headers", GetItem(a, "headers")) ELSE p2
    IN  IF \/ Truthy(GetItem(a, "extract_schema"))
           \/ Truthy(GetItem(a, "extract_system_prompt"))
           \/ Truthy(GetItem(a, "extract_prompt"))
        THEN SetItem(p3, "extract",
                 JObj({ <<"schema", GetItem(a, "extract_schema")>>,
                        <<"systemPrompt", GetItem(a, "extract_system_prompt")>>,
                        <<"prompt", GetItem(a, "extract_prompt")>> }))
        ELSE p3

\* FirecrawlClient.scrape: the payload it builds from its parameters a
sync_scrape_payload(a) ==
    LET p0 == { <<"url", GetItem(a, "url")>>,
                <<"formats", PyOr(GetItem(a, "formats"), MarkdownOnly)>>,
                <<"waitFor", GetItem(a, "wait_for")>>,
                <<"timeout", GetItem(a, "timeout")>> }
        p1 == IF GetItem(a, "include_tags") # JNull
              THEN SetItem(p0, "includeTags", GetItem(a, "include_tags")) ELSE p0
        p2 == IF GetItem(a, "exclude_tags") # JNull
              THEN SetItem(p1, "excludeTags", GetItem(a, "exclude_tags")) ELSE p1
        p3 == IF GetItem(a, "headers") # JNull
              THEN SetItem(p2, "headers", GetItem(a, "headers")) ELSE p2
    IN  IF \/ Truthy(GetItem(a, "extract_schema"))
           \/ Truthy(GetItem(a, "extract_system_prompt"))
           \/ Truthy(GetItem(a, "extract_prompt"))
        THEN SetItem(p3, "extract",
                 JObj({ <<"schema", GetItem(a, "extract_schema")>>,
                        <<"systemPrompt", GetItem(a, "extract_system_prompt")>>,
                        <<"prompt", GetItem(a, "extract_prompt")>> }))
        ELSE p3

\* FirecrawlClient.crawl: the defaults of its signature
sync_crawl_defaults ==
    { <<"exclude_paths", JNull>>, <<"include_paths", JNull>>, <<"max_depth", JInt(2)>>,
      <<"ignore_sitemap", JBool(TRUE)>>, <<"limit", JInt(10)>>,
      <<"allow_backward_links", JBool(FALSE)>>, <<"allow_external_links", JBool(FALSE)>>,
      <<"webhook", JNull>>, <<"scrape_formats", JNull>>, <<"scrape_headers", JNull>>,
      <<"scrape_include_tags", JNull>>, <<"scrape_exclude_tags", JNull>>,
      <<"scrape_wait_for", JInt(123)>> }

\* payload["scrapeOptions"][k] = x
SetScrapeOption(p, k, x) ==
    SetItem(p, "scrapeOptions", JObj(SetItem(GetItem(p, "scrapeOptions").v, k, x)))

\* FirecrawlClient.crawl: the payload it builds from its parameters a
sync_crawl_payload(a) ==
    LET p0 == { <<"url", GetItem(a, "url")>>,
                <<"maxDepth", GetItem(a, "max_depth")>>,
                <<"ignoreSitemap", GetItem(a, "ignore_sitemap")>>,
                <<"limit", GetItem(a, "limit")>>,
                <<"allowBackwardLinks", GetItem(a, "allow_backward_links")>>,
                <<"allowExternalLinks", GetItem(a, "allow_external_links")>>,
                <<"scrapeOptions",
                  JObj({ <<"formats", PyOr(GetItem(a, "scrape_formats"), MarkdownOnly)>>,
                         <<"waitFor", GetItem(a, "scrape_wait_for")>> })>> }
        p1 == IF GetItem(a, "exclude_paths") # JNull
              THEN SetItem(p0, "excludePaths", GetItem(a, "exclude_paths")) ELSE p0
        p2 == IF GetItem(a, "include_paths") # JNull
              THEN SetItem(p1, "includePaths", GetItem(a, "include_paths")) ELSE p1
        p3 == IF GetItem(a, "webhook") # JNull
              THEN SetItem(p2, "webhook", GetItem(a, "webhook")) ELSE p2
        p4 == IF GetItem(a, "scrape_headers") # JNull
              THEN SetScrapeOption(p3, "headers", GetItem(a, "scrape_headers")) ELSE p3
        p5 == IF GetItem(a, "scrape_include_tags") # JNull
              THEN SetScrapeOption(p4, "includeTags", GetItem(a, "scrape_include_tags"))
              ELSE p4
    IN  IF GetItem(a, "scrape_exclude_tags") # JNull
        THEN SetScrapeOption(p5, "excludeTags", GetItem(a, "scrape_exclude_tags"))
        ELSE p5

\* FirecrawlClient.map: the defaults of its signature
sync_map_defaults ==
    { <<"search", JNull>>, <<"ignore_sitemap", JBool(TRUE)>>,
      <<"include_subdomains", JBool(FALSE)>>, <<"limit", JInt(5000)>> }

\* FirecrawlClient.map: the payload it builds from its parameters a
sync_map_payload(a) ==
    LET p0 == { <<"url", GetItem(a, "url")>>,
                <<"ignoreSitemap", GetItem(a, "ignore_sitemap")>>,
                <<"includeSubdomains", GetItem(a, "include_subdomains")>>,
                <<"limit", GetItem(a, "limit")>> }
    IN  IF GetItem(a, "search") # JNull
        THEN SetItem(p0, "search", GetItem(a, "search")) ELSE p0


\* AsyncFirecrawlClient.scrape: the defaults of its signature
async_scrape_defaults ==
    { <<"formats", JNull>>, <<"include_tags", JNull>>, <<"exclude_tags", JNull>>,
      <<"headers", JNull>>, <<"wait_for", JInt(0)>>, <<"timeout", JInt(30000)>>,
      <<"extract_schema", JNull>>, <<"extract_system_prompt", JNull>>,
      <<"extract_prompt", JNull>> }

\* (mutant) wait_for is sent under its Python name
async_scrape_payload_snake(a) ==
    LET p0 == { <<"url", GetItem(a, "url")>>,
                <<"formats", PyOr(GetItem(a, "formats"), MarkdownOnly)>>,
                <<"wait_for", GetItem(a, "wait_for")>>,
                <<"timeout", GetItem(a, "timeout")>> }
        p1 == IF GetItem(a, "include_tags") # JNull
              THEN SetItem(p0, "includeTags", GetItem(a, "include_tags")) ELSE p0
        p2 == IF GetItem(a, "exclude_tags") # JNull
              THEN SetItem(p1, "excludeTags", GetItem(a, "exclude_tags")) ELSE p1
        p3 == IF GetItem(a, "headers") # JNull
              THEN SetItem(p2, "headers", GetItem(a, "headers")) ELSE p2
    IN  IF \/ Truthy(GetItem(a, "extract_schema"))
           \/ Truthy(GetItem(a, "extract_system_prompt"))
           \/ Truthy(GetItem(a, "extract_prompt"))
        THEN SetItem(p3, "extract",
                 JObj({ <<"schema", GetItem(a, "extract_schema")>>,
                        <<"systemPrompt", GetItem(a, "extract_system_prompt")>>,
                        <<"prompt", GetItem(a, "extract_prompt")>> }))
        ELSE p3

\* AsyncFirecrawlClient.scrape: the payload it builds from its parameters a
async_scrape_payload(a) ==
    LET p0 == { <<"url", GetItem(a, "url")>>,
                <<"formats", PyOr(GetItem(a, "formats"), MarkdownOnly)>>,
                <<"waitFor", GetItem(a, "wait_for")>>,
                <<"timeout", GetItem(a, "timeout")>> }
        p1 == IF GetItem(a, "include_tags") # JNull
              THEN SetItem(p0, "includeTags", GetItem(a, "include_tags")) ELSE p0
        p2 == IF GetItem(a, "exclude_tags") # JNull
              THEN SetItem(p1, "excludeTags", GetItem(a, "exclude_tags")) ELSE p1
        p3 == IF GetItem(a, "headers") # JNull
              THEN SetItem(p2, "headers", GetItem(a, "headers")) ELSE p2
    IN  IF \/ Truthy(GetItem(a, "extract_schema"))
           \/ Truthy(GetItem(a, "extract_system_prompt"))
           \/ Truthy(GetItem(a, "extract_prompt"))
        THEN SetItem(p3, "extract",
                 JObj({ <<"schema", GetItem(a, "extract_schema")>>,
                        <<"systemPrompt", GetItem(a, "extract_system_prompt")>>,
                        <<"prompt", GetItem(a, "extract_prompt")>> }))
        ELSE p3

\* AsyncFirecrawlClient.crawl: the defaults of its signature
async_crawl_defaults ==
    { <<"exclude_paths", JNull>>, <<"include_paths", JNull>>, <<"max_depth", JInt(2)>>,
      <<"ignore_sitemap", JBool(TRUE)>>, <<"limit", JInt(10)>>,
      <<"allow_backward_links", JBool(FALSE)>>, <<"allow_external_links", JBool(FALSE)>>,
      <<"webhook", JNull>>, <<"scrape_formats", JNull>>, <<"scrape_headers", JNull>>,
      <<"scrape_include_tags", JNull>>, <<"scrape_exclude_tags", JNull>>,
      <<"scrape_wait_for", JInt(123)>> }

\* AsyncFirecrawlClient.crawl: the payload it builds from its parameters a
async_crawl_payload(a) ==
    LET p0 == { <<"url", GetItem(a, "url")>>,
                <<"maxDepth", GetItem(a, "max_depth")>>,
                <<"ignoreSitemap", GetItem(a, "ignore_sitemap")>>,
                <<"limit", GetItem(a, "limit")>>,
                <<"allowBackwardLinks", GetItem(a, "allow_backward_links")>>,
                <<"allowExternalLinks", GetItem(a, "allow_external_links")>>,
                <<"scrapeOptions",
                  JObj({ <<"formats", PyOr(GetItem(a, "scrape_formats"), MarkdownOnly)>>,
                         <<"waitFor", GetItem(a, "scrape_wait_for")>> })>> }
        p1 == IF GetItem(a, "exclude_paths") # JNull
              THEN SetItem(p0, "excludePaths", GetItem(a, "exclude_paths")) ELSE p0
        p2 == IF GetItem(a, "include_paths") # JNull
              THEN SetItem(p1, "includePaths", GetItem(a, "include_paths")) ELSE p1
        p3 == IF GetItem(a, "webhook") # JNull
              THEN SetItem(p2, "webhook", GetItem(a, "webhook")) ELSE p2
        p4 == IF GetItem(a, "scrape_headers") # JNull
              THEN SetScrapeOption(p3, "headers", GetItem(a, "scrape_headers")) ELSE p3
        p5 == IF GetItem(a, "scrape_include_tags") # JNull
              THEN SetScrapeOption(p4, "includeTags", GetItem(a, "scrape_include_tags"))
              ELSE p4
    IN  IF GetItem(a, "scrape_exclude_tags") # JNull
        THEN SetScrapeOption(p5, "excludeTags", GetItem(a, "scrape_exclude_tags"))
        ELSE p5

\* AsyncFirecrawlClient.map: the defaults of its signature
async_map_defaults ==
    { <<"search", JNull>>, <<"ignore_sitemap", JBool(TRUE)>>,
      <<"include_subdomains", JBool(FALSE)>>, <<"limit", JInt(5000)>> }

\* AsyncFirecrawlClient.map: the payload it builds from its parameters a
async_map_payload(a) ==
    LET p0 == { <<"url", GetItem(a, "url")>>,
                <<"ignoreSitemap", GetItem(a, "ignore_sitemap")>>,
                <<"includeSubdomains", GetItem(a, "include_subdomains")>>,
                <<"limit", GetItem(a, "limit")>> }
    IN  IF GetItem(a, "search") # JNull
        THEN SetItem(p0, "search", GetItem(a, "search")) ELSE p0

-----------------------------------------------------------------------------
(* models.py: pydantic validation (model_validate, lax mode) of a decoded  *)
(* JSON value.  A validator yields [ok, value]: the model built, or the    *)
(* ValidationError.                                                        *)

Missing == [t |-> "missing", v |-> "missing"]
Valid(x) == [ok |-> TRUE, value |-> x]
Invalid == [ok |-> FALSE, value |-> JNull]

\* the value of key k of dict d, or Missing
Field(d, k) == IF k \in Keys(d) THEN GetItem(d, k) ELSE Missing

\* the URLs and timestamps of the model that parse, with what they parse to
\* (HttpUrl normalises an empty path to "/")
HttpUrls == ("https://example.com" :> "https://example.com/")
            @@ ("https://example.com/a" :> "https://example.com/a")
Datetimes == {"2030-01-01T00:00:00Z"}
\* the strings of the model that int accepts in lax mode
IntStrings == ("3" :> 3)

\* Optional[str] = None
OptStr(x) ==
    IF x.t \in {"missing", "null"} THEN Valid(JNull)
    ELSE IF x.t = "str" THEN Valid(x) ELSE Invalid

\* List[str]
ListStr(x) ==
    IF x.t = "list" /\ \A i \in 1..Len(x.v) : x.v[i].t = "str" THEN Valid(x) ELSE Invalid

\* Optional[List[str]] = None
OptListStr(x) == IF x.t \in {"missing", "null"} THEN Valid(JNull) ELSE ListStr(x)

\* Optional[Dict[str, Any]] = None
OptDict(x) ==
    IF x.t \in {"missing", "null"} THEN Valid(JNull)
    ELSE IF x.t = "obj" THEN Valid(x) ELSE Invalid

\* int (required): an int, or a string of digits
ReqInt(x) ==
    IF x.t = "int" THEN Valid(x)
    ELSE IF x.t = "str" /\ x.v \in DOMAIN IntStrings THEN Valid(JInt(IntStrings[x.v]))
    ELSE Invalid

\* bool (required)
ReqBool(x) == IF x.t = "bool" THEN Valid(x) ELSE Invalid

\* str (required)
ReqStr(x) == IF x.t = "str" THEN Valid(x) ELSE Invalid

\* HttpUrl (required)
ReqHttpUrl(x) ==
    IF x.t = "str" /\ x.v \in DOMAIN HttpUrls
    THEN Valid([t |-> "url", v |-> HttpUrls[x.v]]) ELSE Invalid

\* datetime (required)
ReqDatetime(x) ==
    IF x.t = "str" /\ x.v \in Datetimes THEN Valid([t |-> "datetime", v |-> x.v])
    ELSE Invalid

\* class CrawlState(str, Enum)
CrawlState == {"scraping", "completed", "failed"}

ReqCrawlState(x) == IF x.t = "str" /\ x.v \in CrawlState THEN Valid(x) ELSE Invalid

\* class Metadata: declared fields validated, undeclared fields kept
\* (extra="allow")
Metadata_validate(x) ==
    IF x.t # "obj" THEN Invalid
    ELSE LET d == x.v
             title == OptStr(Field(d, "title"))
             description == OptStr(Field(d, "description"))
             language == OptStr(Field(d, "language"))
             sourceURL == ReqHttpUrl(Field(d, "sourceURL"))
             statusCode == ReqInt(Field(d, "statusCode"))
             error == OptStr(Field(d, "error"))
             declared == {"title", "description", "language", "sourceURL",
                          "statusCode", "error"}
         IN  IF /\ title.ok /\ description.ok /\ language.ok
                /\ sourceURL.ok /\ statusCode.ok /\ error.ok
             THEN Valid(JObj({p \in d : p[1] \notin declared} \cup
                        { <<"title", title.value>>,
                          <<"description", description.value>>,
                          <<"language", language.value>>,
                          <<"sourceURL", sourceURL.value>>,
                          <<"statusCode", statusCode.value>>,
                          <<"error", error.value>> }))
             ELSE Invalid

\* class ScrapeResult: rawHtml populates raw_html; undeclared keys are ignored
ScrapeResult_validate(x) ==
    IF x.t # "obj" THEN Invalid
    ELSE LET d == x.v
             markdown == OptStr(Field(d, "markdown"))
             html == OptStr(Field(d, "html"))
             raw_html == OptStr(Field(d, "rawHtml"))
             links == OptListStr(Field(d, "links"))
             metadata == Metadata_validate(Field(d, "metadata"))
             llm_extraction == OptDict(Field(d, "llm_extraction"))
             warning == OptStr(Field(d, "warning"))
         IN  IF /\ markdown.ok /\ html.ok /\ raw_html.ok /\ links.ok
                /\ metadata.ok /\ llm_extraction.ok /\ warning.ok
             THEN Valid(JObj({ <<"markdown", markdown.value>>,
                               <<"html", html.value>>,
                               <<"raw_html", raw_html.value>>,
                               <<"links", links.value>>,
                               <<"metadata", metadata.value>>,
                               <<"llm_extraction", llm_extraction.value>>,
                               <<"warning", warning.value>> }))
             ELSE Invalid

\* List[ScrapeResult]
ListScrapeResult(x) ==
    IF x.t = "list" /\ \A i \in 1..Len(x.v) : ScrapeResult_validate(x.v[i]).ok
    THEN Valid(JList([i \in 1..Len(x.v) |-> ScrapeResult_validate(x.v[i]).value]))
    ELSE Invalid

\* class CrawlStatus: expiresAt populates expires_at
CrawlStatus_validate(x) ==
    IF x.t # "obj" THEN Invalid
    ELSE LET d == x.v
             status == ReqCrawlState(Field(d, "status"))
             total == ReqInt(Field(d, "total"))
             completed == ReqInt(Field(d, "completed"))
             expires_at == ReqDatetime(Field(d, "expiresAt"))
             next == OptStr(Field(d, "next"))
             data == ListScrapeResult(Field(d, "data"))
         IN  IF /\ status.ok /\ total.ok /\ completed.ok
                /\ expires_at.ok /\ next.ok /\ data.ok
             THEN Valid(JObj({ <<"status", status.value>>,
                               <<"total", total.value>>,
                               <<"completed", completed.value>>,
                               <<"expires_at", expires_at.value>>,
                               <<"next", next.value>>,
                               <<"data", data.value>> }))
             ELSE Invalid

\* class CrawlJob
CrawlJob_validate(x) ==
    IF x.t # "obj" THEN Invalid
    ELSE LET d == x.v
             success == ReqBool(Field(d, "success"))
             id == ReqStr(Field(d, "id"))
             url == ReqHttpUrl(Field(d, "url"))
         IN  IF success.ok /\ id.ok /\ url.ok
             THEN Valid(JObj({ <<"success", success.value>>, <<"id", id.value>>,
                               <<"url", url.value>> }))
             ELSE Invalid

\* class MapResult
MapResult_validate(x) ==
    IF x.t # "obj" THEN Invalid
    ELSE LET d == x.v
             success == ReqBool(Field(d, "success"))
             links == ListStr(Field(d, "links"))
         IN  IF success.ok /\ links.ok
             THEN Valid(JObj({ <<"success", success.value>>, <<"links", links.value>> }))
             ELSE Invalid

-----------------------------------------------------------------------------
(* The transport.  A reply is what one transport call (session.post/get/   *)
(* delete, client.post/get/delete) gives back: a network failure, or the   *)
(* response the transport surfaces, with its status code and its body.  A  *)
(* body is the JSON value its text decodes to, or [t |-> "raw"] for text   *)
(* that is not JSON.  The statuses of the model are final ones: 300 is not *)
(* a redirect either library follows.                                      *)

NetworkFailure == [neterr |-> TRUE, status_code |-> 0, body |-> Missing]
Response(code, body) == [neterr |-> FALSE, status_code |-> code, body |-> body]

Request(method, url, json) == [method |-> method, url |-> url, json |-> json]

\* what the operation gives its caller
Returned(x) == [raised |-> "none", value |-> x]
Raised(e) == [raised |-> e, value |-> JNull]

\* requests.Response.raise_for_status: raises HTTPError for 4xx and 5xx only
requests_raise_for_status(code) ==
    (400 <= code /\ code < 500) \/ (500 <= code /\ code < 600)

\* httpx.Response.raise_for_status: raises HTTPStatusError unless is_success (2xx)
httpx_raise_for_status(code) == ~(200 <= code /\ code <= 299)

\* data["data"] of the decoded body
Subscript(data, k) ==
    IF data.t # "obj" THEN Raised("TypeError")
    ELSE IF k \notin Keys(data.v) THEN Raised("KeyError")
    ELSE Returned(GetItem(data.v, k))

\* (mutant) data["success"]: a missing key raises
DictGet_subscript(data, k, default) ==
    IF data.t # "obj" THEN Raised("TypeError")
    ELSE IF k \in Keys(data.v) THEN Returned(GetItem(data.v, k))
    ELSE Raised("KeyError")

\* data.get("success", False) of the decoded body
DictGet(data, k, default) ==
    IF data.t # "obj" THEN Raised("AttributeError")
    ELSE IF k \in Keys(data.v) THEN Returned(GetItem(data.v, k))
    ELSE Returned(default)

\* Model.model_validate(data): the model, or the ValidationError
ModelValidate(validated) ==
    IF validated.ok THEN Returned(validated.value) ELSE Raised("validation")

-----------------------------------------------------------------------------
(* FirecrawlClient: each operation, from the parameters given and the      *)
(* reply of the transport to the requests it issued and its outcome.       *)

sync_scrape(b, given, reply) ==
    LET a == Bind(sync_scrape_defaults, given)
        req == Request("POST", b \o <<"/", "scrape">>, JObj(sync_scrape_payload(a)))
        data == reply.body
        item == Subscript(data, "data")
    IN  [ requests |-> <<req>>,
          outcome |->
            IF reply.neterr THEN Raised("transport")
            ELSE IF requests_raise_for_status(reply.status_code) THEN Raised("http_status")
            ELSE IF data.t = "raw" THEN Raised("json_decode")
            ELSE IF item.raised # "none" THEN item
            ELSE ModelValidate(ScrapeResult_validate(item.value)) ]

sync_crawl(b, given, reply) ==
    LET a == Bind(sync_crawl_defaults, given)
        req == Request("POST", b \o <<"/", "crawl">>, JObj(sync_crawl_payload(a)))
        data == reply.body
    IN  [ requests |-> <<req>>,
          outcome |->
            IF reply.neterr THEN Raised("transport")
            ELSE IF requests_raise_for_status(reply.status_code) THEN Raised("http_status")
            ELSE IF data.t = "raw" THEN Raised("json_decode")
            ELSE ModelValidate(CrawlJob_validate(data)) ]

\* (mutant) get_crawl_status polls once more while the job is scraping
sync_get_crawl_status_polling(b, job_id, reply) ==
    LET req == Request("GET", b \o <<"/", "crawl", "/", job_id>>, Missing)
        data == reply.body
        scraping == /\ ~reply.neterr /\ data.t = "obj"
                    /\ Field(data.v, "status") = JStr("scraping")
    IN  [ requests |-> IF scraping THEN <<req, req>> ELSE <<req>>,
          outcome |->
            IF reply.neterr THEN Raised("transport")
            ELSE IF requests_raise_for_status(reply.status_code) THEN Raised("http_status")
            ELSE IF data.t = "raw" THEN Raised("json_decode")
            ELSE ModelValidate(CrawlStatus_validate(data)) ]

sync_get_crawl_status(b, job_id, reply) ==
    LET req == Request("GET", b \o <<"/", "crawl", "/", job_id>>, Missing)
        data == reply.body
    IN  [ requests |-> <<req>>,
          outcome |->
            IF reply.neterr THEN Raised("transport")
            ELSE IF requests_raise_for_status(reply.status_code) THEN Raised("http_status")
            ELSE IF data.t = "raw" THEN Raised("json_decode")
            ELSE ModelValidate(CrawlStatus_validate(data)) ]

sync_cancel_crawl(b, job_id, reply) ==
    LET req == Request("DELETE", b \o <<"/", "crawl", "/", job_id>>, Missing)
        data == reply.body
    IN  [ requests |-> <<req>>,
          outcome |->
            IF reply.neterr THEN Raised("transport")
            ELSE IF requests_raise_for_status(reply.status_code) THEN Raised("http_status")
            ELSE IF data.t = "raw" THEN Raised("json_decode")
            ELSE DictGet(data, "success", JBool(FALSE)) ]

sync_map(b, given, reply) ==
    LET a == Bind(sync_map_defaults, given)
        req == Request("POST", b \o <<"/", "map">>, JObj(sync_map_payload(a)))
        data == reply.body
    IN  [ requests |-> <<req>>,
          outcome |->
            IF reply.neterr THEN Raised("transport")
            ELSE IF requests_raise_for_status(reply.status_code) THEN Raised("http_status")
            ELSE IF data.t = "raw" THEN Raised("json_decode")
            ELSE ModelValidate(MapResult_validate(data)) ]

-----------------------------------------------------------------------------
(* AsyncFirecrawlClient: each operation, from the parameters given and the *)
(* reply of the transport to the requests it issued and its outcome.       *)

async_scrape(b, given, reply) ==
    LET a == Bind(async_scrape_defaults, given)
        req == Request("POST", b \o <<"/", "scrape">>, JObj(async_scrape_payload(a)))
        data == reply.body
        item == Subscript(data, "data")
    IN  [ requests |-> <<req>>,
          outcome |->
            IF reply.neterr THEN Raised("transport")
            ELSE IF httpx_raise_for_status(reply.status_code) THEN Raised("http_status")
            ELSE IF data.t = "raw" THEN Raised("json_decode")
            ELSE IF item.raised # "none" THEN item
            ELSE ModelValidate(ScrapeResult_validate(item.value)) ]

async_crawl(b, given, reply) ==
    LET a == Bind(async_crawl_defaults, given)
        req == Request("POST", b \o <<"/", "crawl">>, JObj(async_crawl_payload(a)))
        data == reply.body
    IN  [ requests |-> <<req>>,
          outcome |->
            IF reply.neterr THEN Raised("transport")
            ELSE IF httpx_raise_for_status(reply.status_code) THEN Raised("http_status")
            ELSE IF data.t = "raw" THEN Raised("json_decode")
            ELSE ModelValidate(CrawlJob_validate(data)) ]

async_get_crawl_status(b, job_id, reply) ==
    LET req == Request("GET", b \o <<"/", "crawl", "/", job_id>>, Missing)
        data == reply.body
    IN  [ requests |-> <<req>>,
          outcome |->
            IF reply.neterr THEN Raised("transport")
            ELSE IF httpx_raise_for_status(reply.status_code) THEN Raised("http_status")
            ELSE IF data.t = "raw" THEN Raised("json_decode")
            ELSE ModelValidate(CrawlStatus_validate(data)) ]

async_cancel_crawl(b, job_id, reply) ==
    LET req == Request("DELETE", b \o <<"/", "crawl", "/", job_id>>, Missing)
        data == reply.body
    IN  [ requests |-> <<req>>,
          outcome |->
            IF reply.neterr THEN Raised("transport")
            ELSE IF httpx_raise_for_status(reply.status_code) THEN Raised("http_status")
            ELSE IF data.t = "raw" THEN Raised("json_decode")
            ELSE DictGet(data, "success", JBool(FALSE)) ]

async_map(b, given, reply) ==
    LET a == Bind(async_map_defaults, given)
        req == Request("POST", b \o <<"/", "map">>, JObj(async_map_payload(a)))
        data == reply.body
    IN  [ requests |-> <<req>>,
          outcome |->
            IF reply.neterr THEN Raised("transport")
            ELSE IF httpx_raise_for_status(reply.status_code) THEN Raised("http_status")
            ELSE IF data.t = "raw" THEN Raised("json_decode")
            ELSE ModelValidate(MapResult_validate(data)) ]

\* AsyncFirecrawlClient.close: await self.client.aclose()
async_close(t) == "closed"

\* (mutant) __aexit__ closes only when the body raised nothing
async_aexit_on_success(t, exc) == IF exc THEN t ELSE async_close(t)

\* AsyncFirecrawlClient.__aexit__: await self.close(), whatever exc_type is
async_aexit(t, exc) == async_close(t)

-----------------------------------------------------------------------------
(* Inputs *)

BaseTokens == {"a", "/"}
BaseUrls == UNION {[1..n -> BaseTokens] : n \in 0..MaxBaseLen}

PageUrl == JStr("https://example.com")
JobIds == {"j1", "j2"}
SuccessStatuses == {200}
ErrorStatuses == {300, 404, 500}

\* the calls of Spec: the url alone, or with one more argument
ScrapeCalls == { {<<"url", PageUrl>>},
                 {<<"url", PageUrl>>, <<"extract_prompt", JStr("p")>>} }
CrawlCalls == { {<<"url", PageUrl>>,
                 <<"scrape_headers", JObj({<<"X-A", JStr("1")>>})>>} }
MapCalls == { {<<"url", PageUrl>>, <<"search", JStr("docs")>>} }

\* response bodies
RawBody == [t |-> "raw", v |-> "<html>"]
GoodMetadata == JObj({ <<"sourceURL", JStr("https://example.com")>>,
                       <<"statusCode", JInt(200)>>, <<"ogImage", JStr("i.png")>> })
GoodPage == JObj({ <<"markdown", JStr("# Hi")>>, <<"metadata", GoodMetadata>> })
ScrapeOkBody == JObj({ <<"data", GoodPage>> })
ScrapeBodies ==
    { RawBody,
      JObj({}),
      ScrapeOkBody,
      JObj({ <<"data", JObj({ <<"markdown", JStr("# Hi")>> }) >> }),
      JObj({ <<"data", JObj({ <<"markdown", JInt(5)>>, <<"metadata", GoodMetadata>> }) >> }) }
CrawlOkBody == JObj({ <<"success", JBool(TRUE)>>, <<"id", JStr("j1")>>,
                      <<"url", JStr("https://example.com")>> })
CrawlBodies ==
    { RawBody,
      JObj({}),
      CrawlOkBody,
      JObj({ <<"success", JBool(TRUE)>>, <<"id", JInt(7)>>,
             <<"url", JStr("https://example.com")>> }) }
StatusBody(status, total, data, more) ==
    JObj({ <<"status", JStr(status)>>, <<"total", total>>, <<"completed", JInt(1)>>,
           <<"expiresAt", JStr("2030-01-01T00:00:00Z")>>, <<"data", JList(data)>> }
         \cup more)
StatusOkBody ==
    StatusBody("scraping", JInt(3), <<>>, {<<"next", JStr("https://example.com/a")>>})
StatusBodies ==
    { RawBody,
      StatusOkBody,
      StatusBody("completed", JStr("3"), <<GoodPage>>, {}),
      StatusBody("bogus", JInt(3), <<>>, {}),
      JObj({ <<"status", JStr("failed")>>, <<"total", JInt(3)>>,
             <<"completed", JInt(1)>>, <<"data", JList(<<>>)>> }) }
CancelOkBody == JObj({ <<"success", JBool(TRUE)>> })
CancelBodies ==
    { RawBody,
      JList(<<>>),
      JObj({}),
      CancelOkBody,
      JObj({ <<"success", JBool(FALSE)>>, <<"status", JStr("cancelled")>> }) }
MapOkBody == JObj({ <<"success", JBool(TRUE)>>,
                    <<"links", JList(<<JStr("https://example.com/a")>>)>> })
MapBodies ==
    { RawBody,
      JObj({}),
      MapOkBody,
      JObj({ <<"success", JBool(TRUE)>>, <<"links", JStr("https://example.com/a")>> }) }

\* the replies to one operation: a network failure, a 200 with each body, and
\* each other status with a body that is not JSON or with the body `ok`, which
\* would validate
Replies(bodies, ok) ==
    {NetworkFailure}
    \cup {Response(c, x) : c \in SuccessStatuses, x \in bodies}
    \cup {Response(c, x) : c \in ErrorStatuses, x \in {RawBody, ok}}

\* the calls of SpecPayload: every combination of given and omitted arguments
Opt(name, values) == {{}} \cup {{<<name, x>>} : x \in values}
Both(A, B) == {x \cup y : x \in A, y \in B}
Lists(elems) == {JList(q) : q \in UNION {[1..n -> elems] : n \in 0..MaxItems}}
Dicts == {JObj({}), JObj({<<"X-A", JStr("1")>>})}
Schemas == {JObj({}), JObj({<<"type", JStr("object")>>})}
Texts == {JStr(""), JStr("p")}

WideScrapeCalls ==
    Both({{<<"url", PageUrl>>}},
    Both(Opt("formats", Lists({JStr("html")})),
    Both(Opt("include_tags", Lists({JStr("div")})),
    Both(Opt("exclude_tags", Lists({JStr("nav")})),
    Both(Opt("headers", Dicts),
    Both(Opt("wait_for", {JInt(500)}),
    Both(Opt("timeout", {JInt(1000)}),
    Both(Opt("extract_schema", Schemas),
    Both(Opt("extract_system_prompt", Texts),
         Opt("extract_prompt", Texts))))))))))

WideCrawlCalls ==
    Both({{<<"url", PageUrl>>}},
    Both(Opt("exclude_paths", Lists({JStr("/x")})),
    Both(Opt("include_paths", {JList(<<JStr("/y")>>)}),
    Both(Opt("max_depth", {JInt(5)}),
    Both(Opt("ignore_sitemap", {JBool(FALSE)}),
    Both(Opt("limit", {JInt(0)}),
    Both(Opt("allow_backward_links", {JBool(TRUE)}),
    Both(Opt("webhook", {JStr("https://example.com/a")}),
    Both(Opt("scrape_formats", Lists({JStr("html")})),
    Both(Opt("scrape_headers", Dicts),
    Both(Opt("scrape_include_tags", Lists({JStr("div")})),
    Both(Opt("scrape_exclude_tags", Lists({JStr("nav")})),
         Opt("scrape_wait_for", {JInt(0)})))))))))))))

WideMapCalls ==
    Both({{<<"url", PageUrl>>}},
    Both(Opt("search", Texts),
    Both(Opt("ignore_sitemap", {JBool(FALSE)}),
    Both(Opt("include_subdomains", {JBool(TRUE)}),
         Opt("limit", {JInt(0)})))))

-----------------------------------------------------------------------------
(* State *)

NoCall == [op |-> "none", given |-> {}, requests |-> <<>>, reply |-> NetworkFailure,
           outcome |-> Returned(JNull)]
NoPending == [op |-> "none", given |-> {}]

Init ==
    /\ kind \in {"sync", "async"}
    /\ pc = "new"
    /\ base_arg = <<>>
    /\ base_url = <<>>
    /\ transport = "none"
    /\ exit_exc = "none"
    /\ last = NoCall
    /\ ncalls = 0
    /\ nreq = 0
    /\ pending = NoPending

\* the client can be called: it was constructed and its transport is open
Callable == pc \in {"ready", "scope"} /\ transport = "open" /\ ncalls < MaxCalls

\* one operation op, called with `given`, ran as r == [requests, outcome]
\* against `reply`
Called(op, given, reply, r) ==
    /\ last' = [op |-> op, given |-> given, requests |-> r.requests, reply |-> reply,
                outcome |-> r.outcome]
    /\ ncalls' = ncalls + 1
    /\ nreq' = nreq + Len(r.requests)
    /\ UNCHANGED <<kind, pc, base_arg, base_url, transport, exit_exc>>

JobArg(j) == {<<"job_id", JStr(j)>>}

-----------------------------------------------------------------------------
(* Actions *)

Constructed(b, r) ==
    /\ base_arg' = b
    /\ base_url' = r.base_url
    /\ transport' = r.transport
    /\ pc' = IF r.raised THEN "failed" ELSE "ready"
    /\ UNCHANGED <<kind, exit_exc, last, ncalls, nreq, pending>>

SyncConstruct ==
    /\ kind = "sync" /\ pc = "new"
    /\ \E b \in BaseUrls : Constructed(b, sync_init(b))

AsyncConstruct ==
    /\ kind = "async" /\ pc = "new"
    /\ \E b \in BaseUrls : Constructed(b, async_init(b))

SyncScrapeWith(given, reply) ==
    /\ kind = "sync" /\ Callable
    /\ Called("scrape", given, reply, sync_scrape(base_url, given, reply))

SyncCrawlWith(given, reply) ==
    /\ kind = "sync" /\ Callable
    /\ Called("crawl", given, reply, sync_crawl(base_url, given, reply))

SyncMapWith(given, reply) ==
    /\ kind = "sync" /\ Callable
    /\ Called("map", given, reply, sync_map(base_url, given, reply))

AsyncScrapeWith(given, reply) ==
    /\ kind = "async" /\ Callable
    /\ Called("scrape", given, reply, async_scrape(base_url, given, reply))

AsyncCrawlWith(given, reply) ==
    /\ kind = "async" /\ Callable
    /\ Called("crawl", given, reply, async_crawl(base_url, given, reply))

AsyncMapWith(given, reply) ==
    /\ kind = "async" /\ Callable
    /\ Called("map", given, reply, async_map(base_url, given, reply))

SyncScrape ==
    /\ pending = NoPending
    /\ \E given \in ScrapeCalls, reply \in Replies(ScrapeBodies, ScrapeOkBody) :
          SyncScrapeWith(given, reply)
    /\ UNCHANGED pending

SyncCrawl ==
    /\ pending = NoPending
    /\ \E given \in CrawlCalls, reply \in Replies(CrawlBodies, CrawlOkBody) :
          SyncCrawlWith(given, reply)
    /\ UNCHANGED pending

SyncGetCrawlStatus ==
    /\ kind = "sync" /\ Callable /\ pending = NoPending
    /\ \E j \in JobIds, reply \in Replies(StatusBodies, StatusOkBody) :
          Called("get_crawl_status", JobArg(j), reply,
                 sync_get_crawl_status(base_url, j, reply))
    /\ UNCHANGED pending

SyncCancelCrawl ==
    /\ kind = "sync" /\ Callable /\ pending = NoPending
    /\ \E j \in JobIds, reply \in Replies(CancelBodies, CancelOkBody) :
          Called("cancel_crawl", JobArg(j), reply,
                 sync_cancel_crawl(base_url, j, reply))
    /\ UNCHANGED pending

SyncMap ==
    /\ pending = NoPending
    /\ \E given \in MapCalls, reply \in Replies(MapBodies, MapOkBody) :
          SyncMapWith(given, reply)
    /\ UNCHANGED pending

AsyncScrape ==
    /\ pending = NoPending
    /\ \E given \in ScrapeCalls, reply \in Replies(ScrapeBodies, ScrapeOkBody) :
          AsyncScrapeWith(given, reply)
    /\ UNCHANGED pending

AsyncCrawl ==
    /\ pending = NoPending
    /\ \E given \in CrawlCalls, reply \in Replies(CrawlBodies, CrawlOkBody) :
          AsyncCrawlWith(given, reply)
    /\ UNCHANGED pending

AsyncGetCrawlStatus ==
    /\ kind = "async" /\ Callable /\ pending = NoPending
    /\ \E j \in JobIds, reply \in Replies(StatusBodies, StatusOkBody) :
          Called("get_crawl_status", JobArg(j), reply,
                 async_get_crawl_status(base_url, j, reply))
    /\ UNCHANGED pending

AsyncCancelCrawl ==
    /\ kind = "async" /\ Callable /\ pending = NoPending
    /\ \E j \in JobIds, reply \in Replies(CancelBodies, CancelOkBody) :
          Called("cancel_crawl", JobArg(j), reply,
                 async_cancel_crawl(base_url, j, reply))
    /\ UNCHANGED pending

AsyncMap ==
    /\ pending = NoPending
    /\ \E given \in MapCalls, reply \in Replies(MapBodies, MapOkBody) :
          AsyncMapWith(given, reply)
    /\ UNCHANGED pending

\* async with AsyncFirecrawlClient(...) as client: __aenter__ returns self
AsyncEnter ==
    /\ kind = "async" /\ pc = "ready"
    /\ pc' = "scope"
    /\ UNCHANGED <<kind, base_arg, base_url, transport, exit_exc, last, ncalls, nreq,
                   pending>>

\* the scope is left: normally, or by the error the last operation raised
AsyncExit ==
    /\ kind = "async" /\ pc = "scope"
    /\ \E exc \in {e \in BOOLEAN : e => last.outcome.raised # "none"} :
          /\ transport' = async_aexit(transport, exc)
          /\ exit_exc' = IF exc THEN "error" ELSE "normal"
    /\ pc' = "exited"
    /\ UNCHANGED <<kind, base_arg, base_url, last, ncalls, nreq, pending>>

\* await client.close(), called by the caller itself
AsyncClose ==
    /\ kind = "async" /\ pc \in {"ready", "scope"}
    /\ transport' = async_close(transport)
    /\ UNCHANGED <<kind, pc, base_arg, base_url, exit_exc, last, ncalls, nreq, pending>>

Next ==
    \/ SyncConstruct \/ AsyncConstruct
    \/ SyncScrape \/ SyncCrawl \/ SyncGetCrawlStatus \/ SyncCancelCrawl \/ SyncMap
    \/ AsyncScrape \/ AsyncCrawl \/ AsyncGetCrawlStatus \/ AsyncCancelCrawl \/ AsyncMap
    \/ AsyncEnter \/ AsyncExit \/ AsyncClose

Spec == Init /\ [][Next]_vars

-----------------------------------------------------------------------------
(* SpecPayload: the payload builders on every combination of arguments.    *)
(* Init draws the call; the one action of its operation runs it against a  *)
(* server that answers 200 with a body that validates.                     *)

InitPayload ==
    /\ kind \in {"sync", "async"}
    /\ pc = "ready"
    /\ base_arg = <<"a">>
    /\ base_url = <<"a">>
    /\ transport = "open"
    /\ exit_exc = "none"
    /\ last = NoCall
    /\ ncalls = 0
    /\ nreq = 0
    /\ pending \in [op : {"scrape"}, given : WideScrapeCalls]
                   \cup [op : {"crawl"}, given : WideCrawlCalls]
                   \cup [op : {"map"}, given : WideMapCalls]

ScrapeOk == Response(200, ScrapeOkBody)
CrawlOk == Response(200, CrawlOkBody)
MapOk == Response(200, MapOkBody)

SyncScrapePending ==
    /\ pending.op = "scrape" /\ last = NoCall
    /\ SyncScrapeWith(pending.given, ScrapeOk)
    /\ UNCHANGED pending

SyncCrawlPending ==
    /\ pending.op = "crawl" /\ last = NoCall
    /\ SyncCrawlWith(pending.given, CrawlOk)
    /\ UNCHANGED pending

SyncMapPending ==
    /\ pending.op = "map" /\ last = NoCall
    /\ SyncMapWith(pending.given, MapOk)
    /\ UNCHANGED pending

AsyncScrapePending ==
    /\ pending.op = "scrape" /\ last = NoCall
    /\ AsyncScrapeWith(pending.given, ScrapeOk)
    /\ UNCHANGED pending

AsyncCrawlPending ==
    /\ pending.op = "crawl" /\ last = NoCall
    /\ AsyncCrawlWith(pending.given, CrawlOk)
    /\ UNCHANGED pending

AsyncMapPending ==
    /\ pending.op = "map" /\ last = NoCall
    /\ AsyncMapWith(pending.given, MapOk)
    /\ UNCHANGED pending

NextPayload ==
    \/ SyncScrapePending \/ SyncCrawlPending \/ SyncMapPending
    \/ AsyncScrapePending \/ AsyncCrawlPending \/ AsyncMapPending

SpecPayload == InitPayload /\ [][NextPayload]_vars

-----------------------------------------------------------------------------
(* Properties *)

HasCall == last.op # "none"
Is2xx(code) == 200 <= code /\ code <= 299
Got2xx == HasCall /\ ~last.reply.neterr /\ Is2xx(last.reply.status_code)
TheRequest == last.requests[1]
EndsInSlash(u) == u # <<>> /\ u[Len(u)] = "/"

\* C1: a response with a non-2xx status makes the call fail: it raises and
\* gives its caller no result.
C1_NonSuccessStatusFails ==
    (HasCall /\ ~last.reply.neterr /\ ~Is2xx(last.reply.status_code))
        => (last.outcome.raised # "none" /\ last.outcome.value = JNull)

\* the optional parameters of each operation that sends a body, with the
\* place of each in the payload: <<parameter, enclosing object or "", key>>
OptionalPlaces(op) ==
    CASE op = "scrape" ->
           { <<"include_tags", "", "includeTags">>,
             <<"exclude_tags", "", "excludeTags">>,
             <<"headers", "", "headers">>,
             <<"extract_schema", "extract", "schema">>,
             <<"extract_system_prompt", "extract", "systemPrompt">>,
             <<"extract_prompt", "extract", "prompt">> }
      [] op = "crawl" ->
           { <<"exclude_paths", "", "excludePaths">>,
             <<"include_paths", "", "includePaths">>,
             <<"webhook", "", "webhook">>,
             <<"scrape_headers", "scrapeOptions", "headers">>,
             <<"scrape_include_tags", "scrapeOptions", "includeTags">>,
             <<"scrape_exclude_tags", "scrapeOptions", "excludeTags">> }
      [] op = "map" -> { <<"search", "", "search">> }
      [] OTHER -> {}

\* key k is present in payload object o, at the top or inside object `inner`
KeyPresent(o, inner, k) ==
    IF inner = "" THEN k \in Keys(o.v)
    ELSE inner \in Keys(o.v) /\ k \in Keys(GetItem(o.v, inner).v)

\* C2: an optional parameter the caller omitted is no key of the payload sent,
\* neither at the top nor inside extract or scrapeOptions.
C2_OmittedParametersAbsent ==
    HasCall =>
        \A pl \in OptionalPlaces(last.op) :
            pl[1] \notin Keys(last.given) => ~KeyPresent(TheRequest.json, pl[2], pl[3])

\* the request each operation is to send: its method and the path after the
\* base URL
ExpectedMethod(op) ==
    CASE op \in {"scrape", "crawl", "map"} -> "POST"
      [] op = "get_crawl_status" -> "GET"
      [] op = "cancel_crawl" -> "DELETE"
ExpectedPath(op, given) ==
    CASE op = "scrape" -> <<"/", "scrape">>
      [] op = "crawl" -> <<"/", "crawl">>
      [] op = "map" -> <<"/", "map">>
      [] op \in {"get_crawl_status", "cancel_crawl"} ->
           <<"/", "crawl", "/", GetItem(given, "job_id").v>>

Conforms(op, body) ==
    CASE op = "scrape" ->
           /\ body.t = "obj"
           /\ "data" \in Keys(body.v)
           /\ ScrapeResult_validate(GetItem(body.v, "data")).ok
      [] op = "crawl" -> CrawlJob_validate(body).ok
      [] op = "get_crawl_status" -> CrawlStatus_validate(body).ok
      [] op = "map" -> MapResult_validate(body).ok
      [] OTHER -> TRUE

\* C4: a 2xx response whose JSON body does not conform to the expected schema
\* makes scrape, crawl, get_crawl_status and map fail with a validation error,
\* and no object is returned.
C4_NonconformingFailsValidation ==
    (Got2xx /\ last.reply.body.t # "raw" /\ ~Conforms(last.op, last.reply.body))
        => last.outcome = Raised("validation")

\* C5: on a 2xx response whose body is a JSON object, cancel_crawl returns the
\* body's success value when the key is there and False when it is not.
C5_CancelReturnsSuccessFlag ==
    (Got2xx /\ last.op = "cancel_crawl" /\ last.reply.body.t = "obj")
        => last.outcome =
              IF "success" \in Keys(last.reply.body.v)
              THEN Returned(GetItem(last.reply.body.v, "success"))
              ELSE Returned(JBool(FALSE))

\* cancel_crawl answered 200 with {} and returned False
C5_Witness ==
    /\ Got2xx /\ last.op = "cancel_crawl"
    /\ last.reply.body = JObj({})
    /\ last.outcome = Returned(JBool(FALSE))

\* C6: with b a non-empty base URL that does not end in a slash, the client
\* constructed with b and the one constructed with b + "/" send each operation
\* to b followed by the operation's path; an empty base URL fails construction.
C6_TrailingSlashIgnored ==
    LET b == IF EndsInSlash(base_arg) THEN SubSeq(base_arg, 1, Len(base_arg) - 1)
             ELSE base_arg
    IN  /\ pc # "new" => (pc = "failed" <=> base_arg = <<>>)
        /\ (HasCall /\ b # <<>> /\ ~EndsInSlash(b))
              => TheRequest.url = b \o ExpectedPath(last.op, last.given)

\* a client constructed with "a/" cancelled a crawl
C6_Witness ==
    /\ base_arg = <<"a", "/">>
    /\ last.op = "cancel_crawl"
    /\ TheRequest.url = <<"a", "/", "crawl", "/", "j2">>

\* the content fields of a ScrapeResult, with the key of each in the response
ContentFields == { <<"markdown", "markdown">>, <<"html", "html">>,
                   <<"raw_html", "rawHtml">>, <<"links", "links">> }

\* C7: scrape(url) alone sends POST {base_url}/scrape with exactly url,
\* formats ["markdown"], waitFor 0 and timeout 30000, and on a 2xx response
\* whose data conforms to ScrapeResult returns a result whose content fields
\* are those of data.
C7_DefaultScrape ==
    (last.op = "scrape" /\ Keys(last.given) = {"url"}) =>
        /\ last.requests =
              << Request("POST", base_url \o <<"/", "scrape">>,
                         JObj({ <<"url", GetItem(last.given, "url")>>,
                                <<"formats", JList(<<JStr("markdown")>>)>>,
                                <<"waitFor", JInt(0)>>,
                                <<"timeout", JInt(30000)>> })) >>
        /\ (Got2xx /\ last.reply.body.t # "raw" /\ Conforms("scrape", last.reply.body)) =>
              /\ last.outcome.raised = "none"
              /\ \A f \in ContentFields :
                    GetItem(last.outcome.value.v, f[1]) =
                        LET data == GetItem(last.reply.body.v, "data").v
                        IN  IF f[2] \in Keys(data) THEN GetItem(data, f[2]) ELSE JNull

\* scrape(url) returned a result whose markdown is "# Hi"
C7_Witness ==
    /\ last.op = "scrape" /\ Keys(last.given) = {"url"}
    /\ last.outcome.raised = "none"
    /\ GetItem(last.outcome.value.v, "markdown") = JStr("# Hi")

\* C8: once the async-with scope of an AsyncFirecrawlClient is left, normally
\* or by an error raised inside it, the transport is closed.
C8_ScopeExitCloses == pc = "exited" => transport = "closed"

\* the scope was left by the error of an operation that failed inside it
C8_Witness ==
    /\ pc = "exited" /\ exit_exc = "error"
    /\ last.outcome.raised # "none"
    /\ transport = "closed"

\* what client k does for operation op
Run(k, op, b, given, reply) ==
    CASE op = "scrape" ->
           IF k = "sync" THEN sync_scrape(b, given, reply)
           ELSE async_scrape(b, given, reply)
      [] op = "crawl" ->
           IF k = "sync" THEN sync_crawl(b, given, reply)
           ELSE async_crawl(b, given, reply)
      [] op = "map" ->
           IF k = "sync" THEN sync_map(b, given, reply) ELSE async_map(b, given, reply)
      [] op = "get_crawl_status" ->
           IF k = "sync"
           THEN sync_get_crawl_status(b, GetItem(given, "job_id").v, reply)
           ELSE async_get_crawl_status(b, GetItem(given, "job_id").v, reply)
      [] op = "cancel_crawl" ->
           IF k = "sync"
           THEN sync_cancel_crawl(b, GetItem(given, "job_id").v, reply)
           ELSE async_cancel_crawl(b, GetItem(given, "job_id").v, reply)

\* C9: for the same base URL, arguments and server reply the two clients send
\* the same request and give the same outcome.
C9_ClientsAgree ==
    HasCall =>
        /\ Run("sync", last.op, base_url, last.given, last.reply)
             = Run("async", last.op, base_url, last.given, last.reply)
        /\ [requests |-> last.requests, outcome |-> last.outcome]
             = Run(kind, last.op, base_url, last.given, last.reply)

\* the payload client `kind` sends for the call `given` of operation op
PayloadOf(op, given) == Run(kind, op, base_url, given, last.reply).requests[1].json
Without(given, names) == {p \in given : p[1] \notin names}
GivenEmpty(given, name) == name \in Keys(given) /\ ~Truthy(GetItem(given, name))
ArgOrNone(given, name) == IF name \in Keys(given) THEN GetItem(given, name) ELSE JNull
ExtractArgs == {"extract_schema", "extract_system_prompt", "extract_prompt"}

\* C10 as stated: an empty formats, scrape_formats, extract_schema,
\* extract_system_prompt or extract_prompt is treated as if omitted (the
\* payload is that of the call without it), while an empty include_tags,
\* exclude_tags or headers is sent as given.
C10_EmptyAsOmitted ==
    (HasCall /\ last.op \in {"scrape", "crawl"}) =>
        /\ \A name \in {"formats", "scrape_formats"} \cup ExtractArgs :
              GivenEmpty(last.given, name) =>
                  TheRequest.json = PayloadOf(last.op, Without(last.given, {name}))
        /\ \A pl \in {<<"include_tags", "includeTags">>, <<"exclude_tags", "excludeTags">>,
                      <<"headers", "headers">>} :
              GivenEmpty(last.given, pl[1]) =>
                  /\ pl[2] \in Keys(TheRequest.json.v)
                  /\ GetItem(TheRequest.json.v, pl[2]) = GetItem(last.given, pl[1])

\* C10 as amended: an empty formats / scrape_formats is treated as if omitted;
\* when none of the three extract arguments is non-empty the payload is that
\* of the call without them and has no extract key; when one of them is
\* non-empty, extract holds each of the three as given, an empty one as the
\* empty value and only an omitted one as null; an empty include_tags,
\* exclude_tags or headers (scrape) and scrape_include_tags,
\* scrape_exclude_tags or scrape_headers (crawl) is sent as given.
C10_EmptyAsOmittedAmended ==
    (HasCall /\ last.op \in {"scrape", "crawl"}) =>
        /\ \A name \in {"formats", "scrape_formats"} :
              GivenEmpty(last.given, name) =>
                  TheRequest.json = PayloadOf(last.op, Without(last.given, {name}))
        /\ last.op = "scrape" =>
              IF \A name \in ExtractArgs :
                    name \notin Keys(last.given) \/ GivenEmpty(last.given, name)
              THEN /\ "extract" \notin Keys(TheRequest.json.v)
                   /\ TheRequest.json = PayloadOf("scrape", Without(last.given, ExtractArgs))
              ELSE /\ "extract" \in Keys(TheRequest.json.v)
                   /\ GetItem(TheRequest.json.v, "extract") =
                        JObj({ <<"schema", ArgOrNone(last.given, "extract_schema")>>,
                               <<"systemPrompt",
                                 ArgOrNone(last.given, "extract_system_prompt")>>,
                               <<"prompt", ArgOrNone(last.given, "extract_prompt")>> })
        /\ \A pl \in OptionalPlaces(last.op) :
              (pl[2] # "extract" /\ GivenEmpty(last.given, pl[1])) =>
                  /\ KeyPresent(TheRequest.json, pl[2], pl[3])
                  /\ (IF pl[2] = "" THEN GetItem(TheRequest.json.v, pl[3])
                      ELSE GetItem(GetItem(TheRequest.json.v, pl[2]).v, pl[3]))
                         = GetItem(last.given, pl[1])

\* scrape was called with an empty extract_schema and a non-empty
\* extract_prompt, and sent extract.schema = {}
C10_Witness ==
    /\ last.op = "scrape"
    /\ GivenEmpty(last.given, "extract_schema")
    /\ GivenEmpty(last.given, "formats")
    /\ "extract_prompt" \in Keys(last.given) /\ Truthy(GetItem(last.given, "extract_prompt"))
    /\ GetItem(GetItem(TheRequest.json.v, "extract").v, "schema") = JObj({})
    /\ GetItem(TheRequest.json.v, "formats") = MarkdownOnly

====
